---- MODULE Spec2Model ----
(***************************************************************************)
(* The frame loop of the platformer in src/index.tsx: the key handlers and *)
(* update().  Every length and velocity is counted in HALF PIXELS, so that *)
(* GRAVITY = 0.5 px, JUMP_FORCE / 2, canvas.width / 2 and player.width / 2 *)
(* are integers: a source value of v pixels is the integer 2 * v here.     *)
(* canvas.width and canvas.height are integer attributes of the canvas     *)
(* element, so every value the program computes is a multiple of 0.5 and   *)
(* the arithmetic below is exact.                                          *)
(***************************************************************************)
EXTENDS Integers, Sequences, FiniteSets, TLC

\* v pixels, in half pixels
Px(v) == 2 * v

\* --- Game Constants (index.tsx:20-23), in half pixels ---
GRAVITY == 1
PLAYER_SPEED == 8
JUMP_FORCE == -24
WORLD_WIDTH == 6000

\* The ticks explored after a start state.
MaxTicks == 12

\* The ticks of a session in which no key is ever pressed: more than the longest
\* patrol period of the level (364 ticks, the second enemy).
MaxPatrolTicks == 400

\* The viewports (canvas.width, canvas.height) the page may be given, in pixels.
CanvasSizes ==
    { [width |-> Px(800), height |-> Px(600)] }

VARIABLES
    canvas,     \* [width, height], fixed at startup
    player,     \* the Player object
    enemies,    \* the enemies array
    camera,     \* [x, y]
    keys,       \* [left, right, up]
    ticks,      \* update() calls made since the start state
    ev          \* what the last update() did (a trace of its branches)

vars == <<canvas, player, enemies, camera, keys, ticks, ev>>

\* --- index.tsx:72-94 ---
createPlatforms(cv) ==
    LET h == cv.height
        P(x, dy, w, ht) == [x |-> Px(x), y |-> h - Px(dy), width |-> Px(w), height |-> Px(ht)]
    IN << P(0, 40, 800, 40),
          [x |-> Px(900), y |-> h - Px(40), width |-> WORLD_WIDTH - Px(900), height |-> Px(40)],
          P(200, 150, 150, 20),
          P(500, 250, 150, 20),
          P(800, 350, 150, 20),
          P(400, 450, 150, 20),
          P(1100, 150, 200, 20),
          P(1400, 250, 200, 20),
          P(1350, 400, 150, 20),
          P(1700, 350, 300, 20),
          P(2100, 200, 100, 20),
          P(2250, 350, 100, 20),
          P(2400, 500, 100, 20),
          P(2600, 100, 300, 20) >>

\* --- index.tsx:96-102 ---
createEnemies(cv) ==
    LET h == cv.height
        E(x, dy, vx, sx, mr) ==
            [x |-> Px(x), y |-> h - Px(dy), width |-> Px(40), height |-> Px(40),
             vx |-> Px(vx), startX |-> Px(sx), moveRange |-> Px(mr)]
    IN << E(500, 290, 1, 500, 70),
          E(1750, 390, -1, 1700, 220),
          E(2650, 140, 2, 2600, 220) >>

\* a player constructed on its feet
InitialPlayerGrounded(cv) ==
    [x |-> Px(100), y |-> cv.height - Px(200), width |-> Px(40), height |-> Px(60),
     vx |-> 0, vy |-> 0, isJumping |-> FALSE]

\* --- index.tsx:47-55 ---
InitialPlayer(cv) ==
    [x |-> Px(100), y |-> cv.height - Px(200), width |-> Px(40), height |-> Px(60),
     vx |-> 0, vy |-> 0, isJumping |-> TRUE]

\* --- index.tsx:59-62 ---
InitialCamera == [x |-> 0, y |-> 0]

\* --- index.tsx:64-68 ---
InitialKeys == [left |-> FALSE, right |-> FALSE, up |-> FALSE]

\* resetPlayer that also builds the level's enemies again
resetLevel(cv, g) ==
    [g EXCEPT !.player.x = Px(100), !.player.y = cv.height - Px(100),
              !.player.vy = 0, !.player.isJumping = TRUE,
              !.enemies = createEnemies(cv)]

\* resetPlayer that puts the player where it was constructed
resetToStart(cv, g) ==
    [g EXCEPT !.player.x = Px(100), !.player.y = cv.height - Px(200),
              !.player.vy = 0, !.player.isJumping = TRUE]

\* --- index.tsx:141-146: resetPlayer() acts on the globals g, of which it
\* writes four fields of player and nothing else ---
resetPlayer(cv, g) ==
    [g EXCEPT !.player.x = Px(100), !.player.y = cv.height - Px(100),
              !.player.vy = 0, !.player.isJumping = TRUE]

\* --- index.tsx:150-156 ---
HorizontalIntent(p, k) ==
    [p EXCEPT !.vx = IF k.left THEN -PLAYER_SPEED
                     ELSE IF k.right THEN PLAYER_SPEED
                     ELSE 0]

\* the jump test without the airborne check
JumpWheneverUp(p, k) == k.up

\* --- index.tsx:158-161 ---
JumpCondition(p, k) == k.up /\ ~p.isJumping

\* a jump with the sign of the impulse lost
JumpDownwards(p, k) ==
    IF JumpCondition(p, k)
    THEN [p EXCEPT !.vy = -JUMP_FORCE, !.isJumping = TRUE]
    ELSE p

JumpIntent(p, k) ==
    IF JumpCondition(p, k)
    THEN [p EXCEPT !.vy = JUMP_FORCE, !.isJumping = TRUE]
    ELSE p

\* the integration with GRAVITY added before the move
IntegrateGravityFirst(p) ==
    [p EXCEPT !.x = p.x + p.vx, !.y = p.y + p.vy + GRAVITY, !.vy = p.vy + GRAVITY]

\* --- index.tsx:163-165 ---
Integrate(p) ==
    [p EXCEPT !.x = p.x + p.vx, !.y = p.y + p.vy, !.vy = p.vy + GRAVITY]

\* --- index.tsx:171-177 ---
Catches(p, platform) ==
    /\ p.vy >= 0
    /\ p.x + p.width > platform.x
    /\ p.x < platform.x + platform.width
    /\ p.y + p.height > platform.y
    /\ (p.y + p.height - p.vy) <= platform.y

\* --- index.tsx:170-183: the index of the first platform that catches, 0 if none ---
FirstCatch(p, platforms) ==
    LET hits == {i \in 1..Len(platforms) : Catches(p, platforms[i])}
    IN IF hits = {} THEN 0 ELSE CHOOSE i \in hits : \A j \in hits : i <= j

\* PlatformCollision without the snap of line 178
PlatformCollisionNoSnap(p, platforms) ==
    LET i == FirstCatch(p, platforms)
    IN IF i # 0
       THEN [p EXCEPT !.vy = 0, !.isJumping = FALSE]
       ELSE [p EXCEPT !.isJumping = TRUE]

\* --- index.tsx:169-184 ---
PlatformCollision(p, platforms) ==
    LET i == FirstCatch(p, platforms)
    IN IF i # 0
       THEN [p EXCEPT !.y = platforms[i].y - p.height, !.vy = 0, !.isJumping = FALSE]
       ELSE [p EXCEPT !.isJumping = TRUE]

\* the patrol test with the right edge compared by >=
TurnsAtEdge(e) == e.x < e.startX \/ e.x + e.width >= e.startX + e.moveRange

\* --- index.tsx:192: the patrol test, on the enemy's new position ---
Turns(e) == e.x < e.startX \/ e.x + e.width > e.startX + e.moveRange

\* MoveEnemy that tests the right bound only
MoveEnemyRightOnly(enemy) ==
    LET moved == [enemy EXCEPT !.x = enemy.x + enemy.vx]
    IN IF moved.x + moved.width > moved.startX + moved.moveRange
       THEN [moved EXCEPT !.vx = -moved.vx]
       ELSE moved

\* MoveEnemy that tests the patrol bounds before the move
MoveEnemyTestFirst(enemy) ==
    [enemy EXCEPT !.x = enemy.x + enemy.vx,
                  !.vx = IF Turns(enemy) THEN -enemy.vx ELSE enemy.vx]

\* --- index.tsx:189-194 ---
MoveEnemy(enemy) ==
    LET moved == [enemy EXCEPT !.x = enemy.x + enemy.vx]
    IN IF Turns(moved) THEN [moved EXCEPT !.vx = -moved.vx] ELSE moved

\* --- index.tsx:197-202 ---
Overlaps(p, enemy) ==
    /\ p.x < enemy.x + enemy.width
    /\ p.x + p.width > enemy.x
    /\ p.y < enemy.y + enemy.height
    /\ p.y + p.height > enemy.y

\* --- index.tsx:204 ---
IsStomp(p, enemy) == p.vy > 0 /\ (p.y + p.height - p.vy) <= enemy.y

\* Splice one index off: enemies.splice(i + 1, 1)
SpliceNext(s, i) == SubSeq(s, 1, i) \o SubSeq(s, i + 2, Len(s))

\* s with its i-th element removed (enemies.splice(i, 1), index.tsx:205)
Splice(s, i) == SubSeq(s, 1, i - 1) \o SubSeq(s, i + 1, Len(s))

\* --- index.tsx:187-211: the loop from index i down to 1.  st holds the player,
\* the array and the contacts met so far; prevBottom is the player's bottom edge
\* before this tick's vertical move, kept for the trace only. ---
RECURSIVE EnemyLoop(_, _, _, _)
EnemyLoop(cv, i, st, prevBottom) ==
    IF i = 0 THEN st
    ELSE
      LET enemy == MoveEnemy(st.enemies[i])
          p == st.player
          moved == [st.enemies EXCEPT ![i] = enemy]
          contact == [enemy |-> enemy.startX, vy |-> p.vy,
                      above |-> prevBottom <= enemy.y,
                      stomp |-> IsStomp(p, enemy)]
          met == [st EXCEPT !.enemies = moved, !.contacts = @ \cup {contact}]
          next ==
            IF Overlaps(p, enemy)
            THEN IF IsStomp(p, enemy)
                 THEN [met EXCEPT !.enemies = Splice(moved, i),
                                  !.player.vy = JUMP_FORCE \div 2]
                 ELSE resetPlayer(cv, met)
            ELSE [st EXCEPT !.enemies = moved]
      IN EnemyLoop(cv, i - 1, next, prevBottom)

\* no left boundary at all
NoLeftBoundary(p) == p

\* --- index.tsx:214-216 ---
LeftBoundary(p) == IF p.x < 0 THEN [p EXCEPT !.x = 0] ELSE p

\* --- index.tsx:220 ---
FellOut(cv, p) == p.y > cv.height

\* no fall-out test at all
NoFallOutReset(cv, g) == g

\* --- index.tsx:220-222 ---
FallOutReset(cv, g) == IF FellOut(cv, g.player) THEN resetPlayer(cv, g) ELSE g

\* --- index.tsx:226-232 ---
CameraUpdate(cv, p, cam) ==
    LET x0 == p.x - (cv.width \div 2) + (p.width \div 2)
        x1 == IF x0 < 0 THEN 0 ELSE x0
        x2 == IF x1 + cv.width > WORLD_WIDTH THEN WORLD_WIDTH - cv.width ELSE x1
    IN [cam EXCEPT !.x = x2]

NoEvents ==
    [ticked |-> FALSE, grounded |-> FALSE, up |-> FALSE, idle |-> FALSE,
     jumped |-> FALSE, vyMove |-> 0, prevBottom |-> 0,
     caught |-> 0, midY |-> 0, midVy |-> 0, midJumping |-> TRUE,
     contacts |-> {}, turned |-> {}, clamped |-> FALSE, fell |-> FALSE,
     sinceReset |-> 3]

\* --- index.tsx:148-233: one call of update() on the world w = [player, enemies,
\* camera, keys]; the result also carries ev, the trace of the call ---
update(cv, w) ==
    LET platforms == createPlatforms(cv)
        k  == w.keys
        p1 == HorizontalIntent(w.player, k)
        p2 == JumpIntent(p1, k)
        p3 == Integrate(p2)
        p4 == PlatformCollision(p3, platforms)
        st == EnemyLoop(cv, Len(w.enemies),
                        [player |-> p4, enemies |-> w.enemies, contacts |-> {}],
                        p2.y + p2.height)
        p5 == LeftBoundary(st.player)
        g6 == FallOutReset(cv, [st EXCEPT !.player = p5])
        p6 == g6.player
    IN [player  |-> p6,
        enemies |-> g6.enemies,
        camera  |-> CameraUpdate(cv, p6, w.camera),
        keys    |-> k,
        ev      |-> [ticked |-> TRUE,
                     grounded |-> ~w.player.isJumping,
                     up |-> k.up,
                     idle |-> ~k.left /\ ~k.right /\ ~k.up,
                     jumped |-> JumpCondition(p1, k),
                     vyMove |-> p2.vy,
                     prevBottom |-> p2.y + p2.height,
                     caught |-> FirstCatch(p3, platforms),
                     midY |-> p4.y, midVy |-> p4.vy, midJumping |-> p4.isJumping,
                     contacts |-> st.contacts,
                     \* the enemies (by startX) whose vx line 193 reversed
                     turned |-> {w.enemies[i].startX : i \in
                                   {j \in 1..Len(w.enemies) :
                                      MoveEnemy(w.enemies[j]).vx # w.enemies[j].vx}},
                     clamped |-> st.player.x < 0,
                     fell |-> FellOut(cv, p5),
                     \* the ticks since the last resetPlayer(), 3 for three or more
                     sinceReset |->
                        IF FellOut(cv, p5) \/ \E c \in st.contacts : ~c.stomp THEN 0
                        ELSE IF w.ev.sinceReset < 3 THEN w.ev.sinceReset + 1
                        ELSE 3]]

\* The state after construction (index.tsx:47-68 and init(), 274-278)
InitialWorld(cv) ==
    [player |-> InitialPlayer(cv), enemies |-> createEnemies(cv),
     camera |-> InitialCamera, keys |-> InitialKeys, ev |-> NoEvents]

\* The key identifiers of the handlers' switch, and one they do not name.
LeftKeys == {"ArrowLeft", "a"}
RightKeys == {"ArrowRight", "d"}
UpKeys == {"ArrowUp", "w", " "}
KeyNames == LeftKeys \cup RightKeys \cup UpKeys \cup {"x"}

\* a switch that latches: a flag once set is never cleared
SetKeyLatched(k, key, down) ==
    IF key \in LeftKeys THEN [k EXCEPT !.left = TRUE]
    ELSE IF key \in RightKeys THEN [k EXCEPT !.right = TRUE]
    ELSE IF key \in UpKeys THEN [k EXCEPT !.up = TRUE]
    ELSE k

\* a switch with the arrow keys only
SetKeyArrowsOnly(k, key, down) ==
    IF key = "ArrowLeft" THEN [k EXCEPT !.left = down]
    ELSE IF key = "ArrowRight" THEN [k EXCEPT !.right = down]
    ELSE IF key = "ArrowUp" THEN [k EXCEPT !.up = down]
    ELSE k

\* --- index.tsx:104-121 and 123-139: the switch of both handlers ---
SetKey(k, key, down) ==
    IF key \in LeftKeys THEN [k EXCEPT !.left = down]
    ELSE IF key \in RightKeys THEN [k EXCEPT !.right = down]
    ELSE IF key \in UpKeys THEN [k EXCEPT !.up = down]
    ELSE k

(***************************************************************************)
(* Start states.  The level is 3000 px wide and its enemies are some       *)
(* hundred ticks away from the spawn point, so the model explores MaxTicks *)
(* ticks, under every interleaving of key events, from several states of   *)
(* one session.  Each start state is computed by update() itself from the  *)
(* state after construction, along a script of held keys: a sequence of    *)
(* <<keys, n>>, "run n ticks with these flags".                            *)
(***************************************************************************)
None  == [left |-> FALSE, right |-> FALSE, up |-> FALSE]
Left  == [left |-> TRUE, right |-> FALSE, up |-> FALSE]
Right == [left |-> FALSE, right |-> TRUE, up |-> FALSE]
RightUp == [left |-> FALSE, right |-> TRUE, up |-> TRUE]

\* n calls of update() with the flags k held: the first half of them, then the
\* rest (the test of the first half's keys only makes TLC evaluate that half
\* before it goes on, which keeps the evaluation shallow)
RECURSIVE Hold(_, _, _, _)
Hold(cv, w, k, n) ==
    IF n = 0 THEN w
    ELSE IF n = 1 THEN update(cv, [w EXCEPT !.keys = k])
    ELSE LET half == Hold(cv, w, k, n \div 2)
         IN IF half.keys = k THEN Hold(cv, half, k, n - (n \div 2)) ELSE half

RECURSIVE Replay(_, _, _)
Replay(cv, w, script) ==
    IF script = << >> THEN w
    ELSE LET held == Hold(cv, w, Head(script)[1], Head(script)[2])
         IN IF held.keys = Head(script)[1] \/ Head(script)[2] = 0
            THEN Replay(cv, held, Tail(script))
            ELSE held

\* onto the 200..350 platform, then a jump towards the first enemy's platform
ToFirstEnemy(wait, run, tail) ==
    << <<None, wait>>, <<Right, run>>, <<RightUp, 1>>, <<Right, 37>>, <<RightUp, 1>>,
       <<Right, tail>> >>

Scripts ==
    { << >>,                         \* the state after construction
      << <<None, 19>> >>,            \* two ticks before the first landing
      << <<Left, 20>> >>,            \* six ticks before the left edge of the world
      ToFirstEnemy(23, 24, 20),      \* ten ticks before a landing on the first enemy
      ToFirstEnemy(17, 24, 21),      \* ten ticks before meeting it half a pixel lower
      ToFirstEnemy(0, 21, 28),       \* ten ticks before landing beside it, in its way
      \* ten ticks before falling out through the gap in the ground
      << <<Right, 125>>, <<RightUp, 1>>, <<Right, 46>> >>,
      \* the first enemy stomped, then ten ticks before falling out
      ToFirstEnemy(23, 24, 30)
          \o << <<None, 12>>, <<Right, 19>>, <<RightUp, 1>>, <<Right, 57>> >> }

\* --- the precondition of the rest scenario: grounded on a ground platform
\* (the first two of the level), vy = 0, and no enemy within ten of its steps ---
RestTicks == 10

OnGround(cv, p) ==
    \E i \in {1, 2} :
        LET platform == createPlatforms(cv)[i]
        IN /\ p.y + p.height = platform.y
           /\ p.x + p.width > platform.x
           /\ p.x < platform.x + platform.width

Abs(v) == IF v < 0 THEN -v ELSE v

EnemyNear(p, e) ==
    Overlaps(p, [e EXCEPT !.x = e.x - RestTicks * Abs(e.vx),
                          !.width = e.width + 2 * RestTicks * Abs(e.vx)])

AtRest(cv, p, es) ==
    /\ ~p.isJumping
    /\ p.vy = 0
    /\ OnGround(cv, p)
    /\ \A i \in 1..Len(es) : ~EnemyNear(p, es[i])

VARIABLES
    rest        \* [n, x, y]: n ticks without a key held since the player was at
                \* rest at (x, y); n = 0 when there is no such run

\* The keyboard, for the sessions that follow the physical keys (SpecKeys): a
\* keydown comes from a key that is up, a keyup from a key that is down.
VARIABLES
    kbd         \* [held: the keys that are down,
                \*  last: the key of the last event since the last tick ("" if none),
                \*  down: that event was a keydown,
                \*  before: the flags before that event,
                \*  pair: the last two events were a keydown and a keyup of one
                \*        key, in either order, with no tick in between,
                \*  base: the flags before the first of the two,
                \*  used: the last tick came right after such a pair]

allvars == <<vars, rest, kbd>>

NoKeyboard ==
    [held |-> {}, last |-> "", down |-> FALSE, before |-> InitialKeys,
     pair |-> FALSE, base |-> InitialKeys, used |-> FALSE]

\* the keyboard record after an event of the key
KeyEvent(key, isDown) ==
    [held   |-> IF isDown THEN kbd.held \cup {key} ELSE kbd.held \ {key},
     last   |-> key,
     down   |-> isDown,
     before |-> keys,
     pair   |-> kbd.last = key /\ kbd.down # isDown,
     base   |-> kbd.before,
     used   |-> FALSE]

\* the keyboard record after a tick
KeyTick ==
    [kbd EXCEPT !.last = "", !.down = FALSE, !.before = InitialKeys,
                !.pair = FALSE, !.base = InitialKeys, !.used = kbd.pair]

NoRest == [n |-> 0, x |-> 0, y |-> 0]

RestRun(cv, w) ==
    LET idle == ~w.keys.left /\ ~w.keys.right /\ ~w.keys.up
    IN IF idle /\ rest.n \in 1..(RestTicks - 1) THEN [rest EXCEPT !.n = @ + 1]
       ELSE IF idle /\ AtRest(cv, w.player, w.enemies)
            THEN [n |-> 1, x |-> w.player.x, y |-> w.player.y]
       ELSE NoRest

World == [player |-> player, enemies |-> enemies, camera |-> camera, keys |-> keys, ev |-> ev]

Start(w) ==
    /\ player = w.player
    /\ enemies = w.enemies
    /\ camera = w.camera
    /\ keys = w.keys
    /\ ev = w.ev
    /\ ticks = 0
    /\ rest = NoRest
    /\ kbd = NoKeyboard

Init ==
    /\ canvas \in CanvasSizes
    /\ \E script \in Scripts : Start(Replay(canvas, InitialWorld(canvas), script))

\* --- index.tsx:104-121 ---
handleKeyDown(key) ==
    /\ keys' = SetKey(keys, key, TRUE)
    /\ UNCHANGED <<canvas, player, enemies, camera, ticks, ev, rest>>

\* --- index.tsx:123-139 ---
handleKeyUp(key) ==
    /\ keys' = SetKey(keys, key, FALSE)
    /\ UNCHANGED <<canvas, player, enemies, camera, ticks, ev, rest>>

\* --- index.tsx:267-271: one frame of gameLoop (draw() changes no state) ---
Tick ==
    LET w == update(canvas, World)
    IN /\ player' = w.player
       /\ enemies' = w.enemies
       /\ camera' = w.camera
       /\ ev' = w.ev

Frame ==
    /\ Tick
    /\ rest' = RestRun(canvas, World)
    /\ kbd' = KeyTick
    /\ UNCHANGED <<canvas, keys>>

gameLoop ==
    /\ ticks < MaxTicks
    /\ Frame
    /\ ticks' = ticks + 1

\* the handlers run for any key at any time (key repeat, events lost with the
\* focus); the keyboard is not followed
Next ==
    \/ \E key \in KeyNames : handleKeyDown(key) /\ UNCHANGED kbd
    \/ \E key \in KeyNames : handleKeyUp(key) /\ UNCHANGED kbd
    \/ gameLoop

Spec == Init /\ [][Next]_allvars

(***************************************************************************)
(* A session in which no key is ever pressed, from the state after         *)
(* construction: the player lands at the spawn column and stays there,     *)
(* and the three enemies run through their whole patrols.                  *)
(***************************************************************************)
InitPatrol ==
    /\ canvas \in CanvasSizes
    /\ Start(InitialWorld(canvas))

PatrolLoop ==
    /\ ticks < MaxPatrolTicks
    /\ Frame
    /\ ticks' = ticks + 1

SpecPatrol == InitPatrol /\ [][PatrolLoop]_allvars

(***************************************************************************)
(* The same session without an end: gameLoop asks for its next frame at    *)
(* the end of every frame (index.tsx:270), so a frame always comes.  Here   *)
(* ticks counts the frames modulo 2 and the idle-tick counter stands       *)
(* still, which leaves the states of one joint patrol of the three         *)
(* enemies.                                                                *)
(***************************************************************************)
NextFrame == ticks' = (ticks + 1) % 2

LiveLoop ==
    /\ Tick
    /\ NextFrame
    /\ UNCHANGED <<canvas, keys, rest, kbd>>

SpecLive == InitPatrol /\ [][LiveLoop]_allvars /\ WF_ticks(NextFrame)

(***************************************************************************)
(* A session that follows the keyboard, from the state after construction: *)
(* at most MaxHeld keys are down at a time, and MaxKeyTicks ticks run.     *)
(***************************************************************************)
MaxHeld == 2
MaxKeyTicks == 2

Press(key) ==
    /\ key \notin kbd.held
    /\ Cardinality(kbd.held) < MaxHeld
    /\ handleKeyDown(key)
    /\ kbd' = KeyEvent(key, TRUE)

Release(key) ==
    /\ key \in kbd.held
    /\ handleKeyUp(key)
    /\ kbd' = KeyEvent(key, FALSE)

KeysLoop ==
    /\ ticks < MaxKeyTicks
    /\ Frame
    /\ ticks' = ticks + 1

NextKeys ==
    \/ \E key \in KeyNames : Press(key)
    \/ \E key \in KeyNames : Release(key)
    \/ KeysLoop

SpecKeys == InitPatrol /\ [][NextKeys]_allvars

(***************************************************************************)
(* The camera.  canvas.width is 0.9 * window.innerWidth (index.tsx:16),    *)
(* whatever the window is: an ordinary one, one almost as wide as the      *)
(* world, and one wider than the world (a maximised window of a 3840 px    *)
(* display gives 3456).  The sessions start after construction and 15      *)
(* ticks before x = 1475, where the camera of the 2980 px canvas leaves    *)
(* the left end of the world and, 20 px later, meets its right end.        *)
(***************************************************************************)
CameraSizes ==
    { [width |-> Px(w), height |-> Px(600)] : w \in {800, 2980, 3456} }

CameraScripts ==
    { << >>,
      << <<Right, 173>>, <<RightUp, 1>>, <<Right, 166>> >> }

InitCamera ==
    /\ canvas \in CameraSizes
    /\ \E script \in CameraScripts :
            Start(Replay(canvas, InitialWorld(canvas), script))

SpecCamera == InitCamera /\ [][Next]_allvars

(***************************************************************************)
(* The properties.                                                         *)
(***************************************************************************)
Platforms == createPlatforms(canvas)

\* the spawn point of resetPlayer()
AtSpawn ==
    /\ player.x = Px(100)
    /\ player.y = canvas.height - Px(100)
    /\ player.vy = 0
    /\ player.isJumping

\* the enemy created at startX = sx is in the collection
Alive(sx) == \E i \in 1..Len(enemies) : enemies[i].startX = sx

\* C1: from a state in which the player rests on a ground platform with no
\* enemy near, after each of 10 consecutive ticks with no key held the player's
\* position is unchanged, vy is 0 and isJumping is false.
C1_RestIsStill ==
    rest.n \in 1..RestTicks =>
        /\ player.x = rest.x
        /\ player.y = rest.y
        /\ player.vy = 0
        /\ ~player.isJumping

\* C2: a contact with vy > 0 and the player's bottom edge before this tick's
\* vertical move at or above the enemy's top is a stomp: the enemy is gone, the
\* player's vy is JUMP_FORCE / 2 at the end of the tick and the player was not
\* reset.
C2_Stomp ==
    \A c \in ev.contacts :
        (c.vy > 0 /\ c.above) =>
            /\ ~Alive(c.enemy)
            /\ player.vy = JUMP_FORCE \div 2
            /\ ~AtSpawn
            /\ ~ev.fell
            /\ \A d \in ev.contacts : d.stomp

C2_Witness ==
    \E c \in ev.contacts : c.vy > 0 /\ c.above /\ Len(enemies) = 2

\* C3: a contact with vy <= 0, or with the player's previous bottom edge below
\* the enemy's top, is a hit: the player is at the spawn point (x = 100,
\* y = canvas height - 100, vy = 0, isJumping) and the enemy stays.
C3_Hit ==
    \A c \in ev.contacts :
        (c.vy <= 0 \/ ~c.above) => (AtSpawn /\ Alive(c.enemy))

\* C4: once platform collision is resolved, a grounded player stands on the top
\* of the platform that caught it with vy = 0, and the same holds at the end of
\* the tick.
C4_GroundClamp ==
    /\ (ev.ticked /\ ~ev.midJumping) =>
          /\ ev.caught # 0
          /\ ev.midY + player.height = Platforms[ev.caught].y
          /\ ev.midVy = 0
    /\ ~player.isJumping =>
          /\ ev.caught # 0
          /\ player.y + player.height = Platforms[ev.caught].y
          /\ player.vy = 0

C4_Witness == ev.ticked /\ ~player.isJumping /\ ev.caught = 4

\* the first enemy of the level (startX = 500, moveRange = 70, width = 40)
HasFirst(es) == \E i \in 1..Len(es) : es[i].startX = Px(500)
First(es) == es[CHOOSE i \in 1..Len(es) : es[i].startX = Px(500)]

C6_PatrolBound ==
    \A i \in 1..Len(enemies) :
        LET e == enemies[i]
        IN /\ e.x >= e.startX - Abs(e.vx)
           /\ e.x <= e.startX + e.moveRange + Abs(e.vx)

\* an enemy stands one step left of its startX: the lower bound is attained
C6_Witness ==
    /\ ev.ticked
    /\ Len(enemies) = 3
    /\ \E i \in 1..3 : enemies[i].x = enemies[i].startX - Abs(enemies[i].vx)

StartXs(es) == {es[i].startX : i \in 1..Len(es)}

\* C7: the number of enemies never increases, no enemy is ever added, and a
\* removed enemy never comes back, whatever resets the player.
C7_EnemiesShrink ==
    [][/\ Len(enemies') <= Len(enemies)
       /\ StartXs(enemies') \subseteq StartXs(enemies)
       /\ Cardinality(StartXs(enemies')) = Len(enemies')]_allvars

\* a fall-out reset in a session whose first enemy has been stomped
C7_Witness == ev.fell /\ AtSpawn /\ Len(enemies) = 2 /\ ~Alive(Px(500))

\* the world with the key flags replaced
WithKeys(l, r, u) == [World EXCEPT !.keys = [left |-> l, right |-> r, up |-> u]]

\* C8: a tick that begins with the player airborne ends in the same state
\* whether up is held or not, for all values of the other keys.
C8_NoDoubleJump ==
    player.isJumping =>
        \A l, r \in BOOLEAN :
            LET a == update(canvas, WithKeys(l, r, TRUE))
                b == update(canvas, WithKeys(l, r, FALSE))
            IN /\ a.player = b.player
               /\ a.enemies = b.enemies
               /\ a.camera = b.camera

\* a tick that began airborne with up held has been made
C8_Witness == ev.ticked /\ ~ev.grounded /\ ev.up /\ ~ev.jumped

\* C9: in a tick that begins with the player grounded and up held, vy becomes
\* exactly JUMP_FORCE (the velocity of that tick's vertical move) and isJumping
\* is true; unless an enemy is met, the player ends the tick JUMP_FORCE higher
\* with vy = JUMP_FORCE + GRAVITY.
C9_Jump ==
    (ev.ticked /\ ev.grounded /\ ev.up) =>
        /\ ev.jumped
        /\ ev.vyMove = JUMP_FORCE
        /\ player.isJumping
        /\ ~ev.fell
        /\ ev.contacts = {} =>
              /\ player.y + player.height = ev.prevBottom + JUMP_FORCE
              /\ player.vy = JUMP_FORCE + GRAVITY

C9_Witness == ev.ticked /\ ev.grounded /\ ev.up /\ player.vy = JUMP_FORCE + GRAVITY

\* C10: a tick in which the player's y exceeds the canvas height after movement
\* and collisions ends with the player at the spawn point, vy = 0, isJumping;
\* so player.y <= canvas height after every tick, and the next tick is an
\* ordinary tick of an airborne player.
C10_FallOutReset ==
    /\ player.y <= canvas.height
    /\ ev.fell =>
          /\ AtSpawn
          /\ LET n == update(canvas, World)
             IN /\ n.player.y = canvas.height - Px(100)
                /\ n.player.vy = GRAVITY
                /\ ~n.ev.fell

C10_Witness == ev.ticked /\ ev.fell /\ AtSpawn
\* C11: after every tick, for every sequence of key events, player.x >= 0.
C11_LeftBoundary == player.x >= 0

\* a tick in which the walk to the left had passed x = 0 and was clamped
C11_Witness == ev.ticked /\ ev.clamped /\ player.x = 0 /\ keys.left

\* the camera position that centres the player (index.tsx:226)
Centred == player.x - (canvas.width \div 2) + (player.width \div 2)

Min(a, b) == IF a < b THEN a ELSE b
Max(a, b) == IF a > b THEN a ELSE b

\* C12: after every tick, for every player x and every viewport width fixed at
\* startup, camera.x lies within [0, WORLD_WIDTH - canvas.width] and equals
\* player.x - canvas.width / 2 + player.width / 2 clamped to that interval.
C12_CameraClamp ==
    ev.ticked =>
        /\ 0 <= camera.x
        /\ camera.x <= WORLD_WIDTH - canvas.width
        /\ camera.x = Max(0, Min(WORLD_WIDTH - canvas.width, Centred))

\* C12 on the canvases that are not wider than the world, and what the code
\* does on the others
C12_NarrowCanvas ==
    ev.ticked =>
        IF canvas.width <= WORLD_WIDTH
        THEN C12_CameraClamp
        ELSE camera.x = WORLD_WIDTH - canvas.width

\* the three cases of the clamp on a canvas narrower than the world
C12_Follows == ev.ticked /\ 0 < camera.x /\ camera.x = Centred
C12_AtRightEnd ==
    /\ ev.ticked /\ canvas.width < WORLD_WIDTH
    /\ camera.x = WORLD_WIDTH - canvas.width /\ Centred > camera.x
C12_AtLeftEnd == ev.ticked /\ camera.x = 0 /\ Centred < 0

\* a tick that starts airborne and has no jump, platform catch, stomp, hit or
\* fall-out reset
FreeFlight ==
    /\ ticks' = ticks + 1
    /\ player.isJumping
    /\ ~ev'.jumped /\ ev'.caught = 0 /\ ev'.contacts = {} /\ ~ev'.fell

\* C13: in every tick in which the player is airborne and no jump, platform
\* catch, stomp, hit or fall-out reset occurs, vy at the end of the tick is vy at
\* the start plus GRAVITY, and the vertical move used the vy of the start.
C13_Gravity ==
    [][FreeFlight => /\ player'.vy = player.vy + GRAVITY
                     /\ player'.y = player.y + player.vy]_allvars

\* the end of such a tick, in which the player moved down by the vy it had
C13_Witness ==
    /\ ticks > 0
    /\ ev.ticked /\ ~ev.grounded
    /\ ~ev.jumped /\ ev.caught = 0 /\ ev.contacts = {} /\ ~ev.fell
    /\ ev.vyMove > 0
    /\ player.vy = ev.vyMove + GRAVITY
    /\ player.y + player.height = ev.prevBottom + ev.vyMove

\* C15: a platform catches the player only if the player's bottom edge before
\* this tick's vertical move was at or above the platform's top edge; a player
\* whose bottom edge was already below the platform top is never caught.
C15_OneSidedLanding ==
    ev.caught # 0 => ev.prevBottom <= Platforms[ev.caught].y

\* the flag the handlers' switch gives the key
Recognised == LeftKeys \cup RightKeys \cup UpKeys
Flag(k, key) ==
    IF key \in LeftKeys THEN k.left
    ELSE IF key \in RightKeys THEN k.right
    ELSE k.up

\* an event of a key the switch does not name leaves every flag as it was
UnrecognisedIgnored ==
    (kbd.last # "" /\ kbd.last \notin Recognised) => keys = kbd.before

\* C16: input is not queued: a tick uses the flags current at its start; a key
\* pressed and then released (or released and then pressed) with no tick in
\* between leaves the flags, and so the following ticks, as if the two events had
\* not happened; unrecognised keys never change a flag.
C16_NotQueued ==
    /\ kbd.pair => keys = kbd.base
    /\ UnrecognisedIgnored

\* C16 as amended: the same for a pair on a key whose flag showed the key's own
\* state before the pair; after any other pair the flag shows the key's state
\* and the other flags are as before; unrecognised keys never change a flag.
C16_NotQueuedOwnFlag ==
    /\ kbd.pair =>
          IF kbd.last \in Recognised
             /\ Flag(kbd.base, kbd.last) # (kbd.last \in kbd.held)
          THEN keys = SetKey(kbd.base, kbd.last, kbd.last \in kbd.held)
          ELSE keys = kbd.base
    /\ UnrecognisedIgnored

\* a tick that came right after a key was pressed and released, and ran with
\* the flags of before: no flag is set although a key went down and up
C16_Witness ==
    /\ kbd.used /\ ev.ticked /\ ev.idle
    /\ ticks = 1 /\ player.x = Px(100)
    /\ kbd.held = {}

\* a keydown or keyup of the key has just been handled
Pressed(key) == key \in kbd'.held /\ key \notin kbd.held
Released(key) == key \in kbd.held /\ key \notin kbd'.held

\* C19: several keys map to one flag without counting: with two keys of one
\* flag held, releasing either sets the flag false although the other is still
\* held; the flag equals the effect of the last event on any of its keys.
C19_LastEventWins ==
    [][\A key \in Recognised :
          /\ Pressed(key) => Flag(keys', key)
          /\ Released(key) => ~Flag(keys', key)
          /\ (Pressed(key) \/ Released(key)) =>
                keys' = SetKey(keys, key, Flag(keys', key))]_allvars

\* "a" was released while "ArrowLeft" stays down, and left is false
C19_Witness ==
    /\ "ArrowLeft" \in kbd.held
    /\ kbd.last = "a" /\ ~kbd.down
    /\ ~keys.left

\* the first update() after construction
FirstTick == ~ev.ticked /\ ev'.ticked

\* the changes of the vertical mode in a tick: Grounded becomes Airborne only
\* on a jump or when no platform catches the player, Airborne becomes Grounded
\* only on a platform catch
ModeChanges ==
    ticks' = ticks + 1 =>
        /\ (~player.isJumping /\ player'.isJumping) => (ev'.jumped \/ ev'.caught = 0)
        /\ (player.isJumping /\ ~player'.isJumping) => ev'.caught # 0

C18_GroundedAfterReset ==
    /\ ev.sinceReset = 0 => AtSpawn
    /\ ev.sinceReset \in {1, 2} => (~ev.grounded /\ ~ev.jumped)
    /\ ev.sinceReset = 2 =>
          /\ ev.caught = 1
          /\ ~player.isJumping
          /\ player.vy = 0
          /\ player.y = canvas.height - Px(100)

\* the end of the second tick after a reset, up held in it: grounded, no jump
C18_Witness ==
    /\ ev.sinceReset = 2 /\ ev.up
    /\ ~player.isJumping /\ player.vy = 0
    /\ player.y = canvas.height - Px(100)

\* the enemies of the level, by startX (index.tsx:98-100)
LevelEnemies == {Px(500), Px(1700), Px(2600)}

\* every enemy left after the step is one of before, with nothing changed but
\* x and the sign of vx, and no enemy turns in two ticks in a row
EnemiesOnlyPatrol ==
    enemies' # enemies =>
        /\ ev.turned \cap ev'.turned = {}
        /\ \A j \in 1..Len(enemies') : \E i \in 1..Len(enemies) :
              /\ enemies'[j].startX = enemies[i].startX
              /\ enemies'[j].moveRange = enemies[i].moveRange
              /\ enemies'[j].y = enemies[i].y
              /\ enemies'[j].width = enemies[i].width
              /\ enemies'[j].height = enemies[i].height
              /\ Abs(enemies'[j].vx) = Abs(enemies[i].vx)
              /\ (enemies'[j].vx # enemies[i].vx) = (enemies[i].startX \in ev'.turned)

====
